---- MODULE Spec2Model ----
(***************************************************************************)
(* Model of notebooks/WebbPSF-Roman_Tutorial.ipynb: a Jupyter session in   *)
(* which the user runs the notebook's nine code cells, one at a time, in   *)
(* any order.  The state is the kernel's namespace (the names the cells    *)
(* bind), the figures opened, the object handed to the file write, and a   *)
(* record of the last cell run.  Every call into webbpsf / matplotlib /    *)
(* astropy is opaque: it either returns or raises.                         *)
(***************************************************************************)
EXTENDS Integers, Sequences, FiniteSets

\* Bounds of the model: objects the session may create, figures it may open.
MaxObjects == 3
MaxFigures == 2

\* The names the code cells bind or read (lines 26-32, 77, 140).
Names == {"matplotlib", "plt", "webbpsf", "wfi", "mono_psf"}

\* A name the kernel has not bound; a bound module.
Unbound == 0
Module == 1

\* A statement: the names it reads, the library entry point it calls, the name
\* it binds when the call returns ("" for none), and what the call produces.
Stmt(uses, callee, binds, effect) ==
    [uses |-> uses, callee |-> callee, binds |-> binds, effect |-> effect]

\* Code cell 1, lines 26-32.
ImportsCell ==
    << Stmt({}, "%matplotlib", "", "none"),
       Stmt({}, "import matplotlib", "matplotlib", "module"),
       Stmt({"matplotlib"}, "rcParams.__setitem__", "", "none"),
       Stmt({"matplotlib"}, "rcParams.__setitem__", "", "none"),
       Stmt({}, "from matplotlib import pyplot", "plt", "module"),
       Stmt({}, "import webbpsf", "webbpsf", "module"),
       Stmt({}, "import webbpsf.roman", "webbpsf", "module") >>

\* Code cell 2, line 48.
LoggingCell == << Stmt({"webbpsf"}, "setup_logging", "", "none") >>

\* Code cell 3, line 77.
WFICell == << Stmt({"webbpsf"}, "WFI", "wfi", "object") >>

\* Code cell 4, line 95.
InterfaceCell ==
    << Stmt({"webbpsf", "wfi"}, "show_notebook_interface_wfi", "", "none") >>

\* Code cell 5, line 140.
CalcCell == << Stmt({"wfi"}, "calc_psf", "mono_psf", "object") >>

\* Code cell 6, line 156.
InfoCell == << Stmt({"mono_psf"}, "info", "", "none") >>

\* Code cell 7, line 172.
DisplayPsfCell == << Stmt({"webbpsf", "mono_psf"}, "display_psf", "", "none") >>

\* Code cell 8, lines 188-189.
ProfilesCell ==
    << Stmt({"plt"}, "figure", "", "figure"),
       Stmt({"webbpsf", "mono_psf"}, "display_profiles", "", "none") >>

\* Code cell 9, line 205.
WriteCell == << Stmt({"mono_psf"}, "writeto", "", "write") >>

\* The notebook with the calculation cell moved below the cell that reads its
\* result.
NotebookMisordered ==
    << ImportsCell, LoggingCell, WFICell, InterfaceCell, InfoCell,
       CalcCell, DisplayPsfCell, ProfilesCell, WriteCell >>

\* The code cells in the order the notebook file lists them.
Notebook ==
    << ImportsCell, LoggingCell, WFICell, InterfaceCell, CalcCell,
       InfoCell, DisplayPsfCell, ProfilesCell, WriteCell >>

\* Positions of the cells the claims single out.
WidgetPos == 4
CalcPos == 5
ProfilesPos == 8
WritePos == 9

\* The method the text before the calculation cell names (line 131).
DocNamedMethod == "calcPSF"

VARIABLES ns, binder, nextObj, figures, written, last, pos, shown, inOrder, firstError

vars == << ns, binder, nextObj, figures, written, last, pos, shown, inOrder,
          firstError >>

\* The session's effects while one cell runs.
Session(n, b, o, g, w) ==
    [ns |-> n, binder |-> b, nextObj |-> o, figures |-> g, written |-> w,
     calls |-> 0, callee |-> "", outcome |-> "ok", stmt |-> 0]

\* A statement whose call returned: the assignment binds its target to what the
\* call produced (lines 27, 30-32: a module; 77, 140: a new object), plt.figure
\* opens a figure (line 188), writeto stores the object it is called on (205).
Apply(s, c, st) ==
    LET made == IF s.effect = "object" THEN st.nextObj + 1 ELSE st.nextObj
        val == IF s.effect = "object" THEN made ELSE Module
        st1 == [st EXCEPT !.nextObj = made]
        st2 == IF s.binds = "" THEN st1
               ELSE [st1 EXCEPT !.ns[s.binds] = val, !.binder[s.binds] = c]
        st3 == IF s.effect = "figure" THEN [st2 EXCEPT !.figures = @ + 1] ELSE st2
    IN  IF s.effect = "write" THEN [st3 EXCEPT !.written = st.ns["mono_psf"]]
        ELSE st3

\* A cell runner that makes a call a second time when it raises.
RECURSIVE ExecRetry(_, _, _, _)
ExecRetry(c, i, f, st) ==
    IF i > Len(Notebook[c]) THEN st
    ELSE LET s == Notebook[c][i] IN
         IF \E n \in s.uses : st.ns[n] = Unbound
         THEN [st EXCEPT !.outcome = "NameError", !.stmt = i]
         ELSE LET called == [st EXCEPT !.calls = @ + 1, !.callee = s.callee] IN
              IF i = f
              THEN [called EXCEPT !.calls = @ + 1, !.outcome = "LibError", !.stmt = i]
              ELSE ExecRetry(c, i + 1, f, Apply(s, c, called))

\* The statements of cell c from statement i on, run in order; f is the
\* statement whose library call raises (0: none does).  Reading an unbound name
\* raises NameError before the call is made; a call that raises ends the cell
\* before its assignment binds anything.  No statement is in a try or a loop.
RECURSIVE Exec(_, _, _, _)
Exec(c, i, f, st) ==
    IF i > Len(Notebook[c]) THEN st
    ELSE LET s == Notebook[c][i] IN
         IF \E n \in s.uses : st.ns[n] = Unbound
         THEN [st EXCEPT !.outcome = "NameError", !.stmt = i]
         ELSE LET called == [st EXCEPT !.calls = @ + 1, !.callee = s.callee] IN
              IF i = f
              THEN [called EXCEPT !.outcome = "LibError", !.stmt = i]
              ELSE Exec(c, i + 1, f, Apply(s, c, called))

\* Whether a statement of cell c has the given effect.
Has(c, effect) == \E i \in 1..Len(Notebook[c]) : Notebook[c][i].effect = effect

Init ==
    /\ ns = [n \in Names |-> Unbound]
    /\ binder = [n \in Names |-> 0]
    /\ nextObj = 0
    /\ figures = 0
    /\ written = Unbound
    /\ last = [cell |-> 0, outcome |-> "ok", stmt |-> 0, calls |-> 0, callee |-> ""]
    /\ pos = 0
    /\ shown = FALSE
    /\ inOrder = TRUE
    /\ firstError = "none"

\* The user runs code cell c (Shift + Enter, line 17).
Run(c) ==
    /\ Has(c, "object") => nextObj < MaxObjects
    /\ Has(c, "figure") => figures < MaxFigures
    /\ \E f \in 0..Len(Notebook[c]) :
         LET r == Exec(c, 1, f, Session(ns, binder, nextObj, figures, written)) IN
         /\ ns' = r.ns
         /\ binder' = r.binder
         /\ nextObj' = r.nextObj
         /\ figures' = r.figures
         /\ written' = r.written
         /\ last' = [cell |-> c, outcome |-> r.outcome, stmt |-> r.stmt,
                     calls |-> r.calls, callee |-> r.callee]
         /\ firstError' = IF firstError = "none" /\ r.outcome # "ok"
                          THEN r.outcome ELSE firstError
    /\ pos' = c
    /\ shown' = (shown \/ c = WidgetPos)
    /\ inOrder' = (inOrder /\ (c = pos + 1 \/ (pos + 1 = WidgetPos /\ c = pos + 2)))

Imports == Run(1)
SetupLogging == Run(2)
NewWFI == Run(3)
ShowInterface == Run(WidgetPos)
CalcPsf == Run(CalcPos)
Info == Run(6)
DisplayPsf == Run(7)
DisplayProfiles == Run(ProfilesPos)
WriteTo == Run(WritePos)

Next ==
    \/ Imports
    \/ SetupLogging
    \/ NewWFI
    \/ ShowInterface
    \/ CalcPsf
    \/ Info
    \/ DisplayPsf
    \/ DisplayProfiles
    \/ WriteTo

Spec == Init /\ [][Next]_vars

\* The names the statements of cell c read.
Uses(c) == UNION {Notebook[c][i].uses : i \in 1..Len(Notebook[c])}

\* C5: the method the tutorial text names (wfi.calcPSF) is the method the
\* calculation cell invokes, and the value it returns is bound to mono_psf by
\* that cell.
C5_TutorialNamesInvokedMethod ==
    (last.cell = CalcPos /\ last.outcome = "ok")
        => /\ last.callee = DocNamedMethod
           /\ ns["mono_psf"] # Unbound
           /\ binder["mono_psf"] = CalcPos

\* C7: while the cells are run once each in notebook order (the widget cell
\* may be skipped), the first error of the session is never a NameError, and
\* as long as no cell has raised, every name the cell just run reads was bound
\* by an earlier cell: the imports by cell 1, wfi before the widget and the
\* calculation, mono_psf by the calculation before info, display and writeto.
C7_NamesBoundInNotebookOrder ==
    inOrder =>
        /\ firstError # "NameError"
        /\ (firstError = "none" /\ pos > 1) =>
              \A n \in Uses(pos) : ns[n] # Unbound /\ binder[n] \in 1..(pos - 1)
        /\ (firstError = "none" /\ pos >= CalcPos) =>
              /\ binder["webbpsf"] = 1
              /\ binder["wfi"] = 3
              /\ binder["mono_psf"] = CalcPos

\* C7 witness: every cell but the widget cell has run, in order, without error.
C7_RanTopToBottomWithoutWidget ==
    /\ inOrder
    /\ pos = WritePos
    /\ ~shown
    /\ firstError = "none"
    /\ written = ns["mono_psf"]
    /\ written # Unbound

\* A cell that raised leaves every name that was bound before it ran bound to
\* the same object, and has made each call once: a call that raised is the
\* last call of the run, a statement that raised NameError made no call.
NoRetryNoRebind ==
    /\ last'.calls <= Len(Notebook[last'.cell])
    /\ last'.outcome = "LibError" => last'.calls = last'.stmt
    /\ last'.outcome = "NameError" => last'.calls = last'.stmt - 1
    /\ last'.outcome # "ok" =>
          \A n \in Names : ns[n] # Unbound => ns'[n] = ns[n]

\* C8 as stated: a failing cell makes no second attempt and rebinds or unbinds
\* no name bound earlier, and a cell run while a name it reads is unbound fails
\* without changing any state.
C8_FailingCellChangesNoState ==
    [][/\ NoRetryNoRebind
       /\ last'.outcome = "NameError" =>
             /\ ns' = ns
             /\ nextObj' = nextObj
             /\ written' = written
             /\ figures' = figures]_vars

\* C8 amended: as above, except that a cell run while a name it reads is
\* unbound changes no binding, object or file but has run the statements
\* before the failing one: the profiles cell has opened a figure.
C8_FailingCellKeepsBindings ==
    [][/\ NoRetryNoRebind
       /\ last'.outcome = "NameError" =>
             /\ ns' = ns
             /\ nextObj' = nextObj
             /\ written' = written
             /\ figures' # figures =>
                   /\ last'.cell = ProfilesPos
                   /\ last'.stmt = 2
                   /\ figures' = figures + 1]_vars

\* C8 witness: the profiles cell was run after the imports and before the
\* calculation bound mono_psf; it raised NameError after opening a figure.
C8_ProfilesBeforeCalc ==
    /\ last.cell = ProfilesPos
    /\ last.outcome = "NameError"
    /\ last.stmt = 2
    /\ ns["mono_psf"] = Unbound
    /\ ns["wfi"] # Unbound
    /\ figures > 0

====
